---- MODULE Spec2Model ----
(***************************************************************************)
(* Model of the call bot's dialogue controllers.                           *)
(*                                                                         *)
(*   twilio_webhookx.py  the Flask webhook with the per-call session map   *)
(*                       (sessions), CallAssistant and the /voice and      *)
(*                       /process handlers, including the RAG + Gemini     *)
(*                       fan-out of an unknown-intent turn;                *)
(*   voice2.py           VoiceAssistant: handle_intents and the run loop.  *)
(*                                                                         *)
(* The two modules are separate programs: a process runs one of them, and  *)
(* they share no state.  Requests are handled one at a time: every         *)
(* handler is one action.                                                  *)
(* Strings are TLA+ strings; substring tests, lower() and strip() are      *)
(* computed character by character.                                        *)
(***************************************************************************)
EXTENDS Integers, Sequences, FiniteSets, TLC

VARIABLES
    main,       \* the module this process runs as __main__: "twilio_webhookx" or "voice2"
    sessions,   \* twilio_webhookx.sessions: dict call_sid -> {"bot", "start"}
    created,    \* number of CallAssistant objects constructed so far (logical time.time())
    resp,       \* the TwiML document returned by the last handler (sequence of verbs)
    last,       \* the last request: its inputs and the state it found
    ended,      \* history: the call_sids /process finalized, with no /voice for them since
    va,         \* voice2.VoiceAssistant instance driven by VoiceAssistant.run
    va_pc,      \* position of VoiceAssistant.run
    va_spoken,  \* the last text passed to VoiceAssistant.speak
    va_last,    \* the last iteration of the run loop: what it heard and the state it found
    threads,    \* the request threads of the Flask server: position and locals of process
    detached,   \* CallAssistant objects deleted from sessions that a thread still holds
    chist,      \* history of the threaded turns: increments made, closings, KeyErrors
    disk,       \* the file system: the data files and the persisted index directories
    rag,        \* the RealEstateRAG object and how its construction went
    rag_last,   \* the last query_knowledge_base call: its path, calls made and result
    loaded,     \* the result of _load_all_documents
    pool,       \* the executor: the calls submitted, their states, the queue
    handlers    \* the request threads that run an unknown-intent turn

vars == <<main, sessions, created, resp, last, ended, va, va_pc, va_spoken, va_last,
          threads, detached, chist, disk, rag, rag_last, loaded, pool, handlers>>

xvars == <<sessions, created, resp, last, ended>>
vavars == <<va, va_pc, va_spoken, va_last>>
cvars == <<threads, detached, chist>>
kvars == <<disk, rag, rag_last, loaded>>
pvars == <<pool, handlers>>

----------------------------------------------------------------------------
(* Bounds *)

\* number of /voice requests (CallAssistant constructions) explored
MaxVoice == 3
\* longest duration of a pool task explored, in seconds; above 3 + 4
MaxDur == 8

CallIds == {"CA1", "CA2"}

----------------------------------------------------------------------------
(* Strings *)

\* Python: w in s
Contains(s, w) ==
    \E i \in 1..(Len(s) - Len(w) + 1) : SubSeq(s, i, i + Len(w) - 1) = w

LowerOf ==
    [c \in {"A","B","C","D","E","F","G","H","I","J","K","L","M",
            "N","O","P","Q","R","S","T","U","V","W","X","Y","Z"} |->
        CASE c = "A" -> "a" [] c = "B" -> "b" [] c = "C" -> "c" [] c = "D" -> "d"
          [] c = "E" -> "e" [] c = "F" -> "f" [] c = "G" -> "g" [] c = "H" -> "h"
          [] c = "I" -> "i" [] c = "J" -> "j" [] c = "K" -> "k" [] c = "L" -> "l"
          [] c = "M" -> "m" [] c = "N" -> "n" [] c = "O" -> "o" [] c = "P" -> "p"
          [] c = "Q" -> "q" [] c = "R" -> "r" [] c = "S" -> "s" [] c = "T" -> "t"
          [] c = "U" -> "u" [] c = "V" -> "v" [] c = "W" -> "w" [] c = "X" -> "x"
          [] c = "Y" -> "y" [] c = "Z" -> "z"]

RECURSIVE Lower(_)
\* Python: s.lower()
Lower(s) ==
    IF Len(s) = 0 THEN ""
    ELSE LET c == SubSeq(s, 1, 1)
         IN  (IF c \in DOMAIN LowerOf THEN LowerOf[c] ELSE c)
             \o Lower(SubSeq(s, 2, Len(s)))

\* The ASCII characters Python's str.strip() removes, but for \x0b
Whitespace == {" ", "\t", "\n", "\r", "\f"}

RECURSIVE LStrip(_)
LStrip(s) ==
    IF Len(s) > 0 /\ SubSeq(s, 1, 1) \in Whitespace
    THEN LStrip(SubSeq(s, 2, Len(s))) ELSE s

RECURSIVE RStrip(_)
RStrip(s) ==
    IF Len(s) > 0 /\ SubSeq(s, Len(s), Len(s)) \in Whitespace
    THEN RStrip(SubSeq(s, 1, Len(s) - 1)) ELSE s

\* Python: s.strip()
Strip(s) == RStrip(LStrip(s))

----------------------------------------------------------------------------
(* twilio_webhookx.py: CallAssistant *)

confirm_triggers == <<"yes", "sure", "go ahead", "ok", "interested">>
reject_triggers == <<"no", "not now", "not interested", "stop", "leave me">>

\* Python: any(word in user_input for word in triggers)
AnyIn(triggers, user_input) ==
    \E i \in DOMAIN triggers : Contains(user_input, triggers[i])

\* Variant: the reject phrases are checked first
handle_intents_reject_first(user_input) ==
    IF AnyIn(reject_triggers, user_input) THEN "reject"
    ELSE IF AnyIn(confirm_triggers, user_input) THEN "confirm"
    ELSE "unknown"

\* CallAssistant.handle_intents
handle_intents(user_input) ==
    IF AnyIn(confirm_triggers, user_input) THEN "confirm"
    ELSE IF AnyIn(reject_triggers, user_input) THEN "reject"
    ELSE "unknown"

\* CallAssistant.__init__ + reset
CallAssistant(call_id) ==
    [call_id |-> call_id, confirm_count |-> 0, reject_count |-> 0, finalized |-> FALSE]

EscalationMsg == "I understand. Let me connect you with an advisor who can assist further."

\* What model.generate_content(prompt).text is for the n-th generation call of a turn
RawGenText(n) == IF n = 1 THEN "  Generated reply 1 " ELSE "  Generated reply 2 "

\* CallAssistant.generate_response: ok = model.generate_content did not raise
generate_response(ok, n) == IF ok THEN Strip(RawGenText(n)) ELSE EscalationMsg

----------------------------------------------------------------------------
(* twilio_webhookx.py: handlers *)

\* last.fan of a request that submitted nothing to the pool
NoFan == [rag |-> [ok |-> FALSE, dur |-> -1], ai |-> [ok |-> FALSE, dur |-> -1], fb |-> "none"]

\* Python: sessions[call_sid] = value
DictSet(d, k, v) == [x \in DOMAIN d \cup {k} |-> IF x = k THEN v ELSE d[x]]
\* Python: del sessions[call_sid]
DictDel(d, k) == [x \in DOMAIN d \ {k} |-> d[x]]

Say(text) == [verb |-> "Say", text |-> text]
GatherSay(text) == [verb |-> "Gather", text |-> text]
Hangup == [verb |-> "Hangup", text |-> ""]

Greeting == "Hello Demo Client, this is Alexa from RealEstateCo. I'd like to discuss your property in Sample City. Is now a good time?"
NoInputMsg == "Sorry, I didn't catch that. Goodbye."
SessionExpiredMsg == "Session expired. Please call back."
RepeatMsg == "Could you repeat that?"
ConfirmFinalMsg == "Perfect. Our senior advisor will contact you soon. Thank you for your time."
ConfirmInterimMsg == "Great! Let's explore what works best for you."
RejectFinalMsg == "No problem. Thanks for your time. Have a wonderful day!"
RejectInterimMsg == "I understand. Let me share one strategy that might change your perspective."
GatherPrompt == "What are your thoughts?"

RagTimeout == 3
AiTimeout == 4

\* What rag.query_knowledge_base returns when it returns
RagText == "Knowledge answer. Shall I prepare a detailed report?"

\* Python: call_sid in sessions
Tracked(c) == c \in DOMAIN sessions

\* @app.route("/voice")
voice(call_sid) ==
    /\ main = "twilio_webhookx"
    /\ created < MaxVoice
    /\ created' = created + 1
    /\ sessions' = DictSet(sessions, call_sid,
                            [bot |-> CallAssistant(call_sid), start |-> created + 1])
    /\ resp' = <<GatherSay(Greeting), Say(NoInputMsg), Hangup>>
    /\ last' = [op |-> "voice", call_sid |-> call_sid, user_input |-> "",
                intent |-> "none", pre |-> sessions, fan |-> NoFan]
    /\ ended' = ended \ {call_sid}
    /\ UNCHANGED <<pvars, kvars, main, vavars, cvars>>

Durations == 0..MaxDur

\* The outcomes of the calls an unknown-intent turn makes:
\*   rag  rag.query_knowledge_base in the pool: returned (ok) or raised, after dur seconds
\*   ai   model.generate_content inside the pooled bot.generate_response
\*   fb   model.generate_content inside the fallback bot.generate_response
AllFans ==
    [rag : [ok : BOOLEAN, dur : Durations],
     ai  : [ok : BOOLEAN, dur : Durations],
     fb  : {"none", "ok", "error", "hang"}]

\* rag_future.result(timeout=3) returned a value
RagJoined(fan) == fan.rag.dur <= RagTimeout /\ fan.rag.ok
\* ai_future.result(timeout=4), entered when rag_future.result returned, returned a value
AiJoined(fan) == RagJoined(fan) /\ fan.ai.dur <= fan.rag.dur + AiTimeout

\* The fallback call of line 179 is made (fb is not "none") exactly when a join raised
Fans == {f \in AllFans : (f.fb = "none") <=> (RagJoined(f) /\ AiJoined(f))}

\* Every pool task completes at once
FastFans == {f \in Fans : f.rag.dur = 0 /\ f.ai.dur = 0}

SpeechResults == {"", "Yes", "no", "Stop", "OK, but not now", "Tell me more"}

NoReturn == <<[verb |-> "NoReturn", text |-> ""]>>

\* process, lines 171 and 179: the number of bot.generate_response calls of an
\* unknown-intent turn, the pooled one and the one in the except branch
GenCalls(fan) == 1 + (IF fan.fb = "none" THEN 0 ELSE 1)

\* Variant: the two texts are joined in the order the tasks completed
combine_completion_order(fan) ==
    IF RagJoined(fan) /\ AiJoined(fan)
    THEN IF fan.rag.dur < fan.ai.dur
         THEN RagText \o " " \o generate_response(fan.ai.ok, 1)
         ELSE generate_response(fan.ai.ok, 1) \o " " \o RagText
    ELSE IF fan.fb = "hang" THEN ""
    ELSE generate_response(fan.fb = "ok", 2)

\* process, lines 168-179: the reply of an unknown-intent turn ("" when the fallback hangs)
combine(fan) ==
    IF RagJoined(fan) /\ AiJoined(fan)
    THEN generate_response(fan.ai.ok, 1) \o " " \o RagText
    ELSE IF fan.fb = "hang" THEN ""
    ELSE generate_response(fan.fb = "ok", 2)

\* Variant: the session is finalized only at the third confirm
on_confirm_late(call_sid) ==
    LET bot == [sessions[call_sid].bot EXCEPT !.confirm_count = @ + 1]
    IN  IF bot.confirm_count >= 3
        THEN [sessions |-> DictDel(sessions, call_sid),
              resp |-> <<Say(ConfirmFinalMsg), Hangup>>]
        ELSE [sessions |-> [sessions EXCEPT ![call_sid].bot = bot],
              resp |-> <<Say(ConfirmInterimMsg), GatherSay(GatherPrompt)>>]

\* Variant: a confirm turn starts the reject count again
on_confirm_resets_reject(call_sid) ==
    LET bot == [sessions[call_sid].bot EXCEPT !.confirm_count = @ + 1, !.reject_count = 0]
    IN  IF bot.confirm_count >= 2
        THEN [sessions |-> DictDel(sessions, call_sid),
              resp |-> <<Say(ConfirmFinalMsg), Hangup>>]
        ELSE [sessions |-> [sessions EXCEPT ![call_sid].bot = bot],
              resp |-> <<Say(ConfirmInterimMsg), GatherSay(GatherPrompt)>>]

\* Variant: the closing message is spoken after the second confirm but the
\* session stays in the map
on_confirm_keeps_session(call_sid) ==
    LET bot == [sessions[call_sid].bot EXCEPT !.confirm_count = @ + 1]
    IN  IF bot.confirm_count >= 2
        THEN [sessions |-> [sessions EXCEPT ![call_sid].bot = bot],
              resp |-> <<Say(ConfirmFinalMsg), Hangup>>]
        ELSE [sessions |-> [sessions EXCEPT ![call_sid].bot = bot],
              resp |-> <<Say(ConfirmInterimMsg), GatherSay(GatherPrompt)>>]

\* process, lines 144-155
on_confirm(call_sid) ==
    LET bot == [sessions[call_sid].bot EXCEPT !.confirm_count = @ + 1]
    IN  IF bot.confirm_count >= 2
        THEN [sessions |-> DictDel(sessions, call_sid),
              resp |-> <<Say(ConfirmFinalMsg), Hangup>>]
        ELSE [sessions |-> [sessions EXCEPT ![call_sid].bot = bot],
              resp |-> <<Say(ConfirmInterimMsg), GatherSay(GatherPrompt)>>]

\* Variant: the closing message is spoken but the session is kept
on_reject_keeps_session(call_sid) ==
    LET bot == [sessions[call_sid].bot EXCEPT !.reject_count = @ + 1]
    IN  IF bot.reject_count >= 2
        THEN [sessions |-> [sessions EXCEPT ![call_sid].bot = bot],
              resp |-> <<Say(RejectFinalMsg), Hangup>>]
        ELSE [sessions |-> [sessions EXCEPT ![call_sid].bot = bot],
              resp |-> <<Say(RejectInterimMsg), GatherSay(GatherPrompt)>>]

\* process, lines 156-167
on_reject(call_sid) ==
    LET bot == [sessions[call_sid].bot EXCEPT !.reject_count = @ + 1]
    IN  IF bot.reject_count >= 2
        THEN [sessions |-> DictDel(sessions, call_sid),
              resp |-> <<Say(RejectFinalMsg), Hangup>>]
        ELSE [sessions |-> [sessions EXCEPT ![call_sid].bot = bot],
              resp |-> <<Say(RejectInterimMsg), GatherSay(GatherPrompt)>>]

\* Variant: a turn whose joins failed gives up on the call
on_unknown_drops_session(call_sid, fan) ==
    IF ~(RagJoined(fan) /\ AiJoined(fan)) /\ fan.fb = "hang"
    THEN [sessions |-> sessions, resp |-> NoReturn]
    ELSE [sessions |-> IF RagJoined(fan) /\ AiJoined(fan) THEN sessions
                       ELSE DictDel(sessions, call_sid),
          resp |-> <<Say(combine(fan)), GatherSay(GatherPrompt)>>]

\* process, lines 168-188
on_unknown(call_sid, fan) ==
    IF ~(RagJoined(fan) /\ AiJoined(fan)) /\ fan.fb = "hang"
    THEN [sessions |-> sessions, resp |-> NoReturn]
    ELSE [sessions |-> sessions,
          resp |-> <<Say(combine(fan)), GatherSay(GatherPrompt)>>]

\* Variant: an unknown call_sid gets a fresh session
on_untracked_creates(call_sid) ==
    [sessions |-> DictSet(sessions, call_sid,
                     [bot |-> CallAssistant(call_sid), start |-> created]),
     resp |-> <<Say(SessionExpiredMsg), Hangup>>]

\* process, lines 131-134
on_untracked(call_sid) ==
    [sessions |-> sessions, resp |-> <<Say(SessionExpiredMsg), Hangup>>]

\* Variant: an empty utterance starts the counters again
on_empty_resets(call_sid) ==
    [sessions |-> [sessions EXCEPT ![call_sid].bot = CallAssistant(call_sid)],
     resp |-> <<Say(RepeatMsg)>>]

\* process, lines 138-140
on_empty(call_sid) ==
    [sessions |-> sessions, resp |-> <<Say(RepeatMsg)>>]

\* The intent process computes, "none" when it returns before classifying
IntentOf(call_sid, user_input) ==
    IF ~Tracked(call_sid) \/ user_input = "" THEN "none"
    ELSE handle_intents(user_input)

\* Variant: the empty utterance is tested before the session lookup
Dispatch_empty_first(call_sid, user_input, intent, fan) ==
    IF user_input = "" THEN on_empty(call_sid)
    ELSE IF ~Tracked(call_sid) THEN on_untracked(call_sid)
    ELSE IF intent = "confirm" THEN on_confirm(call_sid)
    ELSE IF intent = "reject" THEN on_reject(call_sid)
    ELSE on_unknown(call_sid, fan)

\* process, lines 131-188: the branch taken
Dispatch(call_sid, user_input, intent, fan) ==
    IF ~Tracked(call_sid) THEN on_untracked(call_sid)
    ELSE IF user_input = "" THEN on_empty(call_sid)
    ELSE IF intent = "confirm" THEN on_confirm(call_sid)
    ELSE IF intent = "reject" THEN on_reject(call_sid)
    ELSE on_unknown(call_sid, fan)

\* @app.route("/process"); fans: the outcomes explored for the calls of an unknown turn
process(call_sid, speech, fans) ==
    /\ main = "twilio_webhookx"
    /\ \E user_input \in {Lower(speech)} :
       \E intent \in {IntentOf(call_sid, user_input)} :
       \E fan \in (IF intent = "unknown" THEN fans ELSE {NoFan}) :
       \E r \in {Dispatch(call_sid, user_input, intent, fan)} :
        /\ sessions' = r.sessions
        /\ resp' = r.resp
        /\ last' = [op |-> "process", call_sid |-> call_sid,
                    user_input |-> user_input, intent |-> intent,
                    pre |-> sessions, fan |-> fan]
        /\ ended' = IF Tracked(call_sid) /\ call_sid \notin DOMAIN r.sessions
                    THEN ended \cup {call_sid} ELSE ended
        /\ UNCHANGED <<pvars, kvars, main, created, vavars, cvars>>

----------------------------------------------------------------------------
(* twilio_webhookx.py: /process on the request threads of the Flask server.
   app.run serves each request on its own thread and process takes no lock, so
   the steps of two requests interleave at every access to sessions and to the
   CallAssistant they share.  bot.confirm_count += 1 is a read and a write. *)

\* number of /process requests the threads serve
MaxRequests == 3

Threads == {"T1", "T2"}

ConcSpeech == {"Yes", "no"}

IdleThread == [pc |-> "idle", call_sid |-> "", user_input |-> "", intent |-> "none",
               bot |-> 0, loaded |-> 0, outcome |-> "none"]

NoHistory == [requests |-> 0, confirms |-> 0, rejects |-> 0, closings |-> 0, errors |-> 0]

NoThreads ==
    /\ threads = [t \in Threads |-> IdleThread]
    /\ detached = <<>>
    /\ chist = NoHistory

\* The CallAssistant with identity id: in sessions, or only held by threads
ObjBot(id) ==
    IF \E c \in DOMAIN sessions : sessions[c].start = id
    THEN sessions[CHOOSE c \in DOMAIN sessions : sessions[c].start = id].bot
    ELSE detached[id]

\* The counter a turn of this intent works on
Counter(bot, intent) == IF intent = "confirm" THEN bot.confirm_count ELSE bot.reject_count

\* sessions and detached after writing n to the counter of object id
StoreCounter(id, intent, n) ==
    LET new == IF intent = "confirm" THEN [ObjBot(id) EXCEPT !.confirm_count = n]
               ELSE [ObjBot(id) EXCEPT !.reject_count = n]
    IN  IF \E c \in DOMAIN sessions : sessions[c].start = id
        THEN [sessions |-> [c \in DOMAIN sessions |->
                               IF sessions[c].start = id
                               THEN [sessions[c] EXCEPT !.bot = new] ELSE sessions[c]],
              detached |-> detached]
        ELSE [sessions |-> sessions, detached |-> DictSet(detached, id, new)]

Finish(t, outcome) == [threads EXCEPT ![t].pc = "idle", ![t].outcome = outcome]

\* process, lines 125-129: a request arrives on an idle thread
c_request(t, speech) ==
    /\ main = "twilio_webhookx"
    /\ threads[t].pc = "idle"
    /\ chist.requests < MaxRequests
    /\ threads' = [threads EXCEPT ![t] = [IdleThread EXCEPT !.pc = "check",
                                             !.call_sid = "CA1",
                                             !.user_input = Lower(speech)]]
    /\ chist' = [chist EXCEPT !.requests = @ + 1]
    /\ UNCHANGED <<pvars, kvars, main, xvars, vavars, detached>>

\* process, lines 131-134
c_check(t) ==
    /\ threads[t].pc = "check"
    /\ threads' = IF threads[t].call_sid \in DOMAIN sessions
                  THEN [threads EXCEPT ![t].pc = "get"]
                  ELSE Finish(t, "expired")
    /\ UNCHANGED <<pvars, kvars, main, xvars, vavars, detached, chist>>

\* process, lines 136-142: sessions[call_sid] raises KeyError when the entry is gone
c_get(t) ==
    /\ threads[t].pc = "get"
    /\ \E intent \in {handle_intents(threads[t].user_input)} :
        /\ threads' =
             IF threads[t].call_sid \notin DOMAIN sessions THEN Finish(t, "KeyError")
             ELSE IF threads[t].user_input = "" THEN Finish(t, "repeat")
             ELSE IF intent = "unknown" THEN Finish(t, "answered")
             ELSE [threads EXCEPT ![t].pc = "load", ![t].intent = intent,
                                  ![t].bot = sessions[threads[t].call_sid].start]
        /\ chist' = IF threads[t].call_sid \notin DOMAIN sessions
                    THEN [chist EXCEPT !.errors = @ + 1] ELSE chist
    /\ UNCHANGED <<pvars, kvars, main, xvars, vavars, detached>>

\* process, lines 145 and 157: the read of +=
c_load(t) ==
    /\ threads[t].pc = "load"
    /\ threads' = [threads EXCEPT ![t].pc = "store",
                      ![t].loaded = Counter(ObjBot(threads[t].bot), threads[t].intent)]
    /\ UNCHANGED <<pvars, kvars, main, xvars, vavars, detached, chist>>

\* process, lines 145 and 157: the write of +=
c_store(t) ==
    /\ threads[t].pc = "store"
    /\ \E r \in {StoreCounter(threads[t].bot, threads[t].intent, threads[t].loaded + 1)} :
        /\ sessions' = r.sessions
        /\ detached' = r.detached
    /\ threads' = [threads EXCEPT ![t].pc = "test"]
    /\ chist' = IF threads[t].intent = "confirm"
                THEN [chist EXCEPT !.confirms = @ + 1]
                ELSE [chist EXCEPT !.rejects = @ + 1]
    /\ UNCHANGED <<pvars, kvars, main, created, resp, last, ended, vavars>>

\* process, lines 146 and 158: the counter is read again from the shared object
c_test(t) ==
    /\ threads[t].pc = "test"
    /\ threads' = IF Counter(ObjBot(threads[t].bot), threads[t].intent) >= 2
                  THEN [threads EXCEPT ![t].pc = "del"]
                  ELSE Finish(t, "interim")
    /\ UNCHANGED <<pvars, kvars, main, xvars, vavars, detached, chist>>

\* process, lines 147-153 and 159-165: del sessions[call_sid] raises KeyError when
\* another thread has deleted the entry
c_del(t) ==
    /\ threads[t].pc = "del"
    /\ IF threads[t].call_sid \in DOMAIN sessions
       THEN /\ sessions' = DictDel(sessions, threads[t].call_sid)
            /\ detached' = DictSet(detached, sessions[threads[t].call_sid].start,
                                   sessions[threads[t].call_sid].bot)
            /\ threads' = Finish(t, "final")
            /\ chist' = [chist EXCEPT !.closings = @ + 1]
       ELSE /\ threads' = Finish(t, "KeyError")
            /\ chist' = [chist EXCEPT !.errors = @ + 1]
            /\ UNCHANGED <<sessions, detached>>
    /\ UNCHANGED <<pvars, kvars, main, created, resp, last, ended, vavars>>

----------------------------------------------------------------------------
(* twilio_webhookx.py: the executor.  Unknown-intent turns on the request
   threads submit their two calls to one ThreadPoolExecutor; time is left out:
   a join may time out whenever its task has not completed. *)

\* number of unknown-intent turns explored
MaxTurns == 2

\* executor = ThreadPoolExecutor(max_workers=4)
max_workers == 4

Handlers == {"H1", "H2"}

TaskKinds == {"rag", "ai"}
Tasks == (1..MaxTurns) \X TaskKinds

IdleHandler == [pc |-> "idle", turn |-> 0]

NoPool ==
    /\ pool = [turns |-> 0, task |-> [t \in Tasks |-> "none"], queue |-> <<>>]
    /\ handlers = [h \in Handlers |-> IdleHandler]

Running == {t \in Tasks : pool.task[t] = "running"}

\* The retrieval and generation calls that are being made: by a pool worker, or
\* by a request thread in the except branch
InFlight == Cardinality(Running) + Cardinality({h \in Handlers : handlers[h].pc = "fallback"})

\* process, lines 170-171: both calls are submitted; the thread goes on to line 174
p_submit(h) ==
    /\ main = "twilio_webhookx"
    /\ handlers[h].pc \in {"idle", "returned"}
    /\ pool.turns < MaxTurns
    /\ \E n \in {pool.turns + 1} :
        /\ pool' = [turns |-> n,
                    task |-> [pool.task EXCEPT ![<<n, "rag">>] = "queued",
                                               ![<<n, "ai">>] = "queued"],
                    queue |-> pool.queue \o <<<<n, "rag">>, <<n, "ai">>>>]
        /\ handlers' = [handlers EXCEPT ![h] = [pc |-> "join_rag", turn |-> n]]
    /\ UNCHANGED <<kvars, main, xvars, vavars, cvars>>

\* A worker of the pool takes the oldest queued call; there are max_workers workers
p_start ==
    /\ pool.queue # <<>>
    /\ Cardinality(Running) < max_workers
    /\ pool' = [pool EXCEPT !.task[Head(pool.queue)] = "running", !.queue = Tail(pool.queue)]
    /\ UNCHANGED <<kvars, main, xvars, vavars, cvars, handlers>>

\* The call of a worker ends: rag.query_knowledge_base returns or raises,
\* bot.generate_response returns (it catches what the generation client raises)
p_finish(t, ok) ==
    /\ pool.task[t] = "running"
    /\ ok \/ t[2] = "rag"
    /\ pool' = [pool EXCEPT !.task[t] = IF ok THEN "returned" ELSE "raised"]
    /\ UNCHANGED <<kvars, main, xvars, vavars, cvars, handlers>>

\* process, line 174: rag_future.result(timeout=3) returns, re-raises, or times out
\* with the task left as it is
p_join_rag(h, timed_out) ==
    /\ handlers[h].pc = "join_rag"
    /\ \E s \in {pool.task[<<handlers[h].turn, "rag">>]} :
        /\ timed_out <=> s \in {"queued", "running"}
        /\ handlers' = [handlers EXCEPT ![h].pc = IF s = "returned" THEN "join_ai"
                                                  ELSE "fallback"]
    /\ UNCHANGED <<kvars, main, xvars, vavars, cvars, pool>>

\* process, lines 175-176 and 181-188: ai_future.result(timeout=4) returns and the
\* reply is sent, or it times out with the task left as it is
p_join_ai(h, timed_out) ==
    /\ handlers[h].pc = "join_ai"
    /\ \E s \in {pool.task[<<handlers[h].turn, "ai">>]} :
        /\ timed_out <=> s \in {"queued", "running"}
        /\ handlers' = [handlers EXCEPT ![h].pc = IF s = "returned" THEN "returned"
                                                  ELSE "fallback"]
    /\ UNCHANGED <<kvars, main, xvars, vavars, cvars, pool>>

\* process, lines 177-188: bot.generate_response on the request thread returns and
\* the reply is sent
p_fallback(h) ==
    /\ handlers[h].pc = "fallback"
    /\ handlers' = [handlers EXCEPT ![h].pc = "returned"]
    /\ UNCHANGED <<kvars, main, xvars, vavars, cvars, pool>>

----------------------------------------------------------------------------
(* voice2.py: VoiceAssistant *)

va_confirm_triggers ==
    <<"yes", "let's do it", "go ahead", "i'm ready", "interested", "please do", "okay", "ok">>
va_reject_triggers ==
    <<"no", "not now", "not interested", "leave me", "don't", "not today">>

\* VoiceAssistant.handle_intents
va_handle_intents(user_input) ==
    IF AnyIn(va_confirm_triggers, user_input) THEN "confirm"
    ELSE IF AnyIn(va_reject_triggers, user_input) THEN "reject"
    ELSE "unknown"

\* VoiceAssistant.__init__
VoiceAssistant == [confirm_count |-> 0, reject_count |-> 0, finalized |-> FALSE]

VaGreeting == "Good morning, John Smith. I'm Alexa from Baaz Landmark Real Estate. I've reviewed your 2-bedroom property in Downtown Dubai. Would now be a good time to discuss it?"
VaRepeatMsg == "Sorry, could you repeat that?"
VaConfirmFinalMsg == "Perfect. One of our senior advisors from Baaz Landmark will contact you shortly. Thank you for your time!"
VaConfirmInterimMsg == "Great! Let's explore what works best for your situation."
VaRejectFinalMsg == "No problem. Thanks for your time. If anything changes, feel free to contact Baaz Landmark anytime."
VaRejectInterimMsg == "I understand. Let me share one strategy that might change your perspective."
VaGenText == "Generated consultation reply"

\* What the microphone and recognize_google deliver to listen
VaSpeech == {"Yes", "okay", "No", "Not today", "I'm ready, but not now", "Tell me more"}

\* VoiceAssistant.run, lines 103-112: warm-up call and greeting; generate_response does
\* not catch what model.generate_content raises
va_start(gen_ok) ==
    /\ main = "voice2"
    /\ va_pc = "start"
    /\ va_pc' = IF gen_ok THEN "loop" ELSE "crashed"
    /\ va_spoken' = IF gen_ok THEN VaGreeting ELSE va_spoken
    /\ UNCHANGED <<va, va_last>>
    /\ UNCHANGED <<pvars, kvars, main, xvars, cvars>>

\* VoiceAssistant.listen: the lower-cased text, or "" after asking to repeat
listen(heard_ok, speech) == IF heard_ok THEN Lower(speech) ELSE ""

\* VoiceAssistant.run, lines 121-129
va_on_confirm ==
    LET n == va.confirm_count + 1
    IN  IF n >= 2
        THEN [va |-> [va EXCEPT !.confirm_count = n, !.finalized = TRUE],
              pc |-> "done", spoken |-> VaConfirmFinalMsg]
        ELSE [va |-> [va EXCEPT !.confirm_count = n],
              pc |-> "loop", spoken |-> VaConfirmInterimMsg]

\* VoiceAssistant.run, lines 131-139
va_on_reject ==
    LET n == va.reject_count + 1
    IN  IF n >= 2
        THEN [va |-> [va EXCEPT !.reject_count = n, !.finalized = TRUE],
              pc |-> "done", spoken |-> VaRejectFinalMsg]
        ELSE [va |-> [va EXCEPT !.reject_count = n],
              pc |-> "loop", spoken |-> VaRejectInterimMsg]

\* VoiceAssistant.run, lines 141-142
va_on_unknown(gen_ok) ==
    IF gen_ok THEN [va |-> va, pc |-> "loop", spoken |-> VaGenText]
    ELSE [va |-> va, pc |-> "crashed", spoken |-> va_spoken]

\* VoiceAssistant.run, lines 114-142: one iteration of the loop
va_turn(heard_ok, speech, gen_ok) ==
    /\ main = "voice2"
    /\ va_pc = "loop"
    /\ ~va.finalized
    /\ \E user_input \in {listen(heard_ok, speech)} :
       \E intent \in {IF user_input = "" THEN "none" ELSE va_handle_intents(user_input)} :
       \E r \in {IF user_input = "" THEN [va |-> va, pc |-> "loop", spoken |-> VaRepeatMsg]
                 ELSE IF intent = "confirm" THEN va_on_confirm
                 ELSE IF intent = "reject" THEN va_on_reject
                 ELSE va_on_unknown(gen_ok)} :
          /\ va' = r.va
          /\ va_pc' = r.pc
          /\ va_spoken' = r.spoken
          /\ va_last' = [user_input |-> user_input, intent |-> intent, pre |-> va]
    /\ UNCHANGED <<pvars, kvars, main, xvars, cvars>>

----------------------------------------------------------------------------
(* twilio_webhook.py: one VoiceAssistant, made when the module is loaded, serves
   every request; va is that object.  The handlers do not read CallSid. *)

\* highest value of a counter of the global bot explored
MaxCount == 4

\* the text of line 29 has the apostrophe U+2019 where this string has "'"
WhGreeting == "Good day, John Smith. I'm Alexa from Baaz Landmark Real Estate. I noticed your property in Downtown Dubai has increased in value since 2020. Would now be a good time to discuss your options?"
WhNoInputMsg == "Sorry, I didn't catch that. Goodbye!"
WhRepeatMsg == "Sorry, could you repeat that?"
WhConfirmFinalMsg == "Perfect. One of our senior advisors will contact you shortly. Thank you for your time!"
WhConfirmInterimMsg == "Great! Let's explore what works best for your situation."
WhRejectFinalMsg == "No problem. Thanks for your time. If anything changes, feel free to contact Baaz Landmark anytime."
WhRejectInterimMsg == "I understand. Let me share one strategy that might change your perspective."
WhGatherPrompt == "What do you think about this option?"

\* What Flask answers when the handler raises
ServerError == <<[verb |-> "Error", text |-> "500"]>>

WhSpeech == {"", "  ", "Yes", "No", "Tell me more"}

\* the calls of an unknown turn: rag.query_knowledge_base and bot.generate_response
\* return (ok) or raise
WhFan(rag_ok, gen_ok) ==
    [rag |-> [ok |-> rag_ok, dur |-> 0], ai |-> [ok |-> gen_ok, dur |-> 0], fb |-> "none"]

\* @app.route("/voice"), lines 11-31
wh_voice(call_sid) ==
    /\ main = "twilio_webhook"
    /\ created < MaxVoice
    /\ created' = created + 1
    /\ resp' = <<GatherSay(WhGreeting), Say(WhNoInputMsg), Hangup>>
    /\ last' = [op |-> "voice", call_sid |-> call_sid, user_input |-> "",
                intent |-> "none", pre |-> va, fan |-> NoFan]
    /\ UNCHANGED <<pvars, kvars, main, sessions, ended, vavars, cvars>>

\* process, lines 47-54
wh_on_confirm ==
    LET n == va.confirm_count + 1
    IN  IF n >= 2
        THEN [va |-> [va EXCEPT !.confirm_count = n, !.finalized = TRUE],
              resp |-> <<Say(WhConfirmFinalMsg), Hangup>>]
        ELSE [va |-> [va EXCEPT !.confirm_count = n],
              resp |-> <<Say(WhConfirmInterimMsg)>>]

\* process, lines 56-63
wh_on_reject ==
    LET n == va.reject_count + 1
    IN  IF n >= 2
        THEN [va |-> [va EXCEPT !.reject_count = n, !.finalized = TRUE],
              resp |-> <<Say(WhRejectFinalMsg), Hangup>>]
        ELSE [va |-> [va EXCEPT !.reject_count = n],
              resp |-> <<Say(WhRejectInterimMsg)>>]

\* process, lines 65-77: nothing catches what the two calls raise
wh_on_unknown(rag_ok, gen_ok) ==
    IF rag_ok /\ gen_ok
    THEN [va |-> va,
          resp |-> <<Say(VaGenText \o " By the way, " \o RagText), GatherSay(WhGatherPrompt)>>]
    ELSE [va |-> va, resp |-> ServerError]

\* @app.route("/process"), lines 34-79
wh_process(call_sid, speech, rag_ok, gen_ok) ==
    /\ main = "twilio_webhook"
    /\ va.confirm_count < MaxCount /\ va.reject_count < MaxCount
    /\ \E user_input \in {Lower(speech)} :
       \E intent \in {IF Strip(user_input) = "" THEN "none"
                      ELSE va_handle_intents(user_input)} :
       \E r \in {IF intent = "none" THEN [va |-> va, resp |-> <<Say(WhRepeatMsg)>>]
                 ELSE IF intent = "confirm" THEN wh_on_confirm
                 ELSE IF intent = "reject" THEN wh_on_reject
                 ELSE wh_on_unknown(rag_ok, gen_ok)} :
          /\ va' = r.va
          /\ resp' = r.resp
          /\ last' = [op |-> "process", call_sid |-> call_sid,
                      user_input |-> user_input, intent |-> intent, pre |-> va,
                      fan |-> IF intent = "unknown" THEN WhFan(rag_ok, gen_ok) ELSE NoFan]
    /\ UNCHANGED <<pvars, kvars, main, sessions, created, ended, va_pc, va_spoken, va_last, cvars>>

----------------------------------------------------------------------------
(* properties_rag.py and property_rag.py: RealEstateRAG.  The two modules
   differ in their paths, index directory, profile keywords and fallback
   texts; m is the module that runs.  The file system (the data files and the
   persisted index directory) is the variable disk. *)

\* rows of a CSV file that loads
MaxRows == 1

RagMains == {"properties_rag", "property_rag"}

DATA_FILES(m) ==
    IF m = "properties_rag"
    THEN [csv |-> <<"data/dubai_property_index.csv",
                    "data/summary_transactions.csv",
                    "data/valuations1_rag.csv",
                    "data/valuation2_rag.csv",
                    "data/rents_rag.csv",
                    "data/residential_sale_index_rag.csv",
                    "data/faq_questions.csv">>,
          txt |-> <<"data/about_company.txt",
                    "data/dubai_real_estate_market_analysis.txt",
                    "data/about_the_bot.txt">>]
    ELSE [csv |-> <<"C:\\Users\\Keerthivasan R S\\Videos\\PYTHON PROGRAMS\\FINAL RAG\\dubai_property_index.csv",
                    "C:\\Users\\Keerthivasan R S\\Videos\\PYTHON PROGRAMS\\FINAL RAG\\summary_transactions.csv",
                    "C:\\Users\\Keerthivasan R S\\Videos\\PYTHON PROGRAMS\\FINAL RAG\\valuations1_rag.csv",
                    "C:\\Users\\Keerthivasan R S\\Videos\\PYTHON PROGRAMS\\FINAL RAG\\valuation2_rag.csv",
                    "C:\\Users\\Keerthivasan R S\\Videos\\PYTHON PROGRAMS\\FINAL RAG\\rents_rag.csv",
                    "C:\\Users\\Keerthivasan R S\\Videos\\PYTHON PROGRAMS\\FINAL RAG\\Residental_Sale_Index_rag.csv",
                    "C:\\Users\\Keerthivasan R S\\Videos\\PYTHON PROGRAMS\\FINAL RAG\\faq_questions.csv">>,
          txt |-> <<"C:\\Users\\Keerthivasan R S\\Videos\\PYTHON PROGRAMS\\FINAL RAG\\about company.txt",
                    "C:\\Users\\Keerthivasan R S\\Videos\\PYTHON PROGRAMS\\FINAL RAG\\Dubai_Real_Estate_Market_Analysis.txt",
                    "C:\\Users\\Keerthivasan R S\\Videos\\PYTHON PROGRAMS\\FINAL RAG\\aboout the bot.txt">>]

COMPANY_PROFILE_PATH(m) ==
    IF m = "properties_rag" THEN "data/about_company.txt"
    ELSE "C:\\Users\\Keerthivasan R S\\Videos\\PYTHON PROGRAMS\\FINAL RAG\\about company.txt"

INDEX_DIR(m) == IF m = "properties_rag" THEN "faiss_index" ELSE "baaz_landmark_faiss_index"

IndexDirs == {INDEX_DIR(m) : m \in RagMains}

ProfileKeywords(m) ==
    IF m = "properties_rag"
    THEN <<"company", "realestateco", "founder", "ceo", "head office">>
    ELSE <<"company", "baaz", "founder", "ceo", "head office", "who are you">>

NoDataMsg(m) ==
    IF m = "properties_rag"
    THEN "Sorry, I couldn't find relevant data. Would you like me to connect you with an advisor?"
    ELSE "Sorry, I couldn't find relevant data now. But I can connect you to a senior advisor!"

\* the text of property_rag.py has the dash U+2014 where this string has "-"
NoProfileMsg(m) ==
    IF m = "properties_rag"
    THEN "Sorry, I couldn't load the company profile. Would you like me to connect you with an advisor?"
    ELSE "Sorry, I couldn't load our company profile - but I can connect you to a senior advisor."

chunk_size == 1000
chunk_overlap == 200

\* query_knowledge_base(self, query, k=2): every caller leaves k at its default
DefaultK == 2

Paths(m) ==
    {DATA_FILES(m).csv[i] : i \in DOMAIN DATA_FILES(m).csv}
        \cup {DATA_FILES(m).txt[i] : i \in DOMAIN DATA_FILES(m).txt}

\* What a path is on disk: absent, a file its loader raises on, a file with
\* content, a file with no content but whitespace
FileStates == {"missing", "bad", "ok", "blank"}

RECURSIVE Flatten(_)
\* Python: docs.extend(loaded) over a list of lists
Flatten(seqs) == IF seqs = <<>> THEN <<>> ELSE Head(seqs) \o Flatten(Tail(seqs))

\* CSVLoader(file_path=path).load(): one document per row
CSVLoad(path, status) ==
    IF status = "ok"
    THEN [r \in 1..MaxRows |->
             [source |-> path, row |-> r - 1, page_content |-> "area: Marina\nprice: 100"]]
    ELSE <<>>

\* TextLoader(path, encoding="utf-8").load(): one document per file
TextLoad(path, status) ==
    <<[source |-> path, row |-> -1,
       page_content |-> IF status = "ok" THEN "RealEstateCo sells homes in Dubai.\n"
                        ELSE " \n\t"]>>

\* Variant: no try around the loader, its exception leaves the loop
load_csv_unguarded(files, path) ==
    IF files[path] = "missing" THEN [docs |-> <<>>, raised |-> FALSE]
    ELSE IF files[path] = "bad" THEN [docs |-> <<>>, raised |-> TRUE]
    ELSE [docs |-> CSVLoad(path, files[path]), raised |-> FALSE]

\* _load_csvs, one pass of the loop
load_csv(files, path) ==
    IF files[path] = "missing" THEN [docs |-> <<>>, raised |-> FALSE]
    ELSE IF files[path] = "bad" THEN [docs |-> <<>>, raised |-> FALSE]
    ELSE [docs |-> CSVLoad(path, files[path]), raised |-> FALSE]

\* _load_txts, one pass of the loop
load_txt(files, path) ==
    IF files[path] = "missing" THEN [docs |-> <<>>, raised |-> FALSE]
    ELSE IF files[path] = "bad" THEN [docs |-> <<>>, raised |-> FALSE]
    ELSE [docs |-> TextLoad(path, files[path]), raised |-> FALSE]

\* The loop over filepaths: an exception that leaves a pass ends the loop
LoadLoop(passes) ==
    IF \E i \in DOMAIN passes : passes[i].raised
    THEN [docs |-> <<>>, raised |-> TRUE]
    ELSE [docs |-> Flatten([i \in DOMAIN passes |-> passes[i].docs]), raised |-> FALSE]

_load_csvs(files, filepaths) ==
    LoadLoop([i \in DOMAIN filepaths |-> load_csv(files, filepaths[i])])

_load_txts(files, filepaths) ==
    LoadLoop([i \in DOMAIN filepaths |-> load_txt(files, filepaths[i])])

_load_all_documents(m, files) ==
    LET csv == _load_csvs(files, DATA_FILES(m).csv)
        txt == _load_txts(files, DATA_FILES(m).txt)
    IN  IF csv.raised \/ txt.raised THEN [docs |-> <<>>, raised |-> TRUE]
        ELSE [docs |-> csv.docs \o txt.docs, raised |-> FALSE]

_load_company_profile(m, files) ==
    IF files[COMPANY_PROFILE_PATH(m)] = "missing" THEN ""
    ELSE IF files[COMPANY_PROFILE_PATH(m)] = "bad" THEN ""
    ELSE TextLoad(COMPANY_PROFILE_PATH(m), files[COMPANY_PROFILE_PATH(m)])[1].page_content

RECURSIVE SplitText(_)
\* RecursiveCharacterTextSplitter(chunk_size=1000, chunk_overlap=200) on one text:
\* whitespace is stripped, an empty piece is dropped, a text within chunk_size
\* is one chunk; a longer one is cut here into windows that overlap
SplitText(t) ==
    IF Strip(t) = "" THEN <<>>
    ELSE IF Len(Strip(t)) <= chunk_size THEN <<Strip(t)>>
    ELSE <<SubSeq(Strip(t), 1, chunk_size)>>
             \o SplitText(SubSeq(Strip(t), chunk_size - chunk_overlap + 1, Len(Strip(t))))

\* splitter.split_documents(docs): the chunks keep the metadata of their document
split_documents(docs) ==
    Flatten([i \in DOMAIN docs |->
                LET parts == SplitText(docs[i].page_content)
                IN  [j \in DOMAIN parts |-> [docs[i] EXCEPT !.page_content = parts[j]]]])

\* FAISS.from_texts(texts, embeddings, metadatas): every text is embedded, then
\* the index is made in memory.  It raises when the embedding call fails
\* (fail_at is the chunk it fails on, 0 for none) and on an empty list.
from_texts(chunks, fail_at) == [ok |-> chunks # <<>> /\ fail_at = 0, store |-> chunks]

\* The persisted index directory
AbsentIndex == [state |-> "absent", chunks |-> <<>>]
SavedIndex(chunks) == [state |-> "valid", chunks |-> chunks]
CorruptIndex == [state |-> "corrupt", chunks |-> <<>>]

LoadTrace == <<"load_local">>
BuildTrace == <<"load_documents", "split_documents", "from_texts", "save_local">>
FailedBuildTrace == <<"load_documents", "split_documents", "from_texts">>

\* Variant: the chunks embedded before the failure are saved
_initialize_vectorstore_saves_partial(m, d, fail_at) ==
    LET found == d.index[INDEX_DIR(m)]
        chunks == split_documents(_load_all_documents(m, d.files).docs)
        built == from_texts(chunks, fail_at)
    IN  IF found.state # "absent"
        THEN IF found.state = "valid"
             THEN [error |-> "none", vectorstore |-> found.chunks,
                   index |-> d.index, trace |-> LoadTrace]
             ELSE [error |-> "load_local", vectorstore |-> <<>>,
                   index |-> d.index, trace |-> LoadTrace]
        ELSE IF built.ok
             THEN [error |-> "none", vectorstore |-> built.store,
                   index |-> [d.index EXCEPT ![INDEX_DIR(m)] = SavedIndex(built.store)],
                   trace |-> BuildTrace]
             ELSE [error |-> "from_texts", vectorstore |-> <<>>,
                   index |-> [d.index EXCEPT ![INDEX_DIR(m)] =
                                 SavedIndex(SubSeq(chunks, 1, fail_at - 1))],
                   trace |-> FailedBuildTrace]

\* Variant: the index that was built is not saved
_initialize_vectorstore_no_save(m, d, fail_at) ==
    LET found == d.index[INDEX_DIR(m)]
        chunks == split_documents(_load_all_documents(m, d.files).docs)
        built == from_texts(chunks, fail_at)
    IN  IF found.state # "absent"
        THEN IF found.state = "valid"
             THEN [error |-> "none", vectorstore |-> found.chunks,
                   index |-> d.index, trace |-> LoadTrace]
             ELSE [error |-> "load_local", vectorstore |-> <<>>,
                   index |-> d.index, trace |-> LoadTrace]
        ELSE IF built.ok
             THEN [error |-> "none", vectorstore |-> built.store,
                   index |-> d.index, trace |-> BuildTrace]
             ELSE [error |-> "from_texts", vectorstore |-> <<>>,
                   index |-> d.index, trace |-> FailedBuildTrace]

\* _initialize_vectorstore: os.path.exists(INDEX_DIR) chooses between load_local,
\* which raises on a directory it cannot read, and the build; nothing catches
\* what load_local or from_texts raises
_initialize_vectorstore(m, d, fail_at) ==
    LET found == d.index[INDEX_DIR(m)]
        chunks == split_documents(_load_all_documents(m, d.files).docs)
        built == from_texts(chunks, fail_at)
    IN  IF found.state # "absent"
        THEN IF found.state = "valid"
             THEN [error |-> "none", vectorstore |-> found.chunks,
                   index |-> d.index, trace |-> LoadTrace]
             ELSE [error |-> "load_local", vectorstore |-> <<>>,
                   index |-> d.index, trace |-> LoadTrace]
        ELSE IF built.ok
             THEN [error |-> "none", vectorstore |-> built.store,
                   index |-> [d.index EXCEPT ![INDEX_DIR(m)] = SavedIndex(built.store)],
                   trace |-> BuildTrace]
             ELSE [error |-> "from_texts", vectorstore |-> <<>>,
                   index |-> d.index, trace |-> FailedBuildTrace]

\* The chunks the build of module m embeds
BuildChunks(m, d) == split_documents(_load_all_documents(m, d.files).docs)

\* The chunk the embedding call fails on, 0 for none: one chunk per CSV row and
\* per text file at most
FailAts == 0..(Len(DATA_FILES("properties_rag").csv) * MaxRows
                  + Len(DATA_FILES("properties_rag").txt))

\* vectorstore.similarity_search(query, k): the k nearest chunks in some order,
\* all of them when the store holds fewer
similarity_search(store, k) ==
    LET n == IF Len(store) < k THEN Len(store) ELSE k
    IN  {[i \in 1..n |-> store[p[i]]] :
            p \in {q \in [1..n -> DOMAIN store] : \A i, j \in 1..n : i # j => q[i] # q[j]}}

RECURSIVE JoinContext(_)
\* Python: "\n\n".join([doc.page_content for doc in results])
JoinContext(results) ==
    IF results = <<>> THEN ""
    ELSE IF Len(results) = 1 THEN results[1].page_content
    ELSE results[1].page_content \o "\n\n" \o JoinContext(Tail(results))

RawKnowledgeText == "  Knowledge answer. Shall I prepare a detailed report?\n"
RawProfileText == "Profile answer. If you'd like, I can arrange a call with our senior advisors. \n"

\* model.generate_content(prompt).text.strip(); nothing catches what it raises
Generate(raw, gen_ok) ==
    IF gen_ok THEN [outcome |-> "returned", text |-> Strip(raw), gen_calls |-> 1]
    ELSE [outcome |-> "raised", text |-> "", gen_calls |-> 1]

\* Variant: the profile is tested without strip
_generate_company_response_no_strip(m, company_profile, gen_ok) ==
    IF company_profile = ""
    THEN [outcome |-> "returned", text |-> NoProfileMsg(m), gen_calls |-> 0]
    ELSE Generate(RawProfileText, gen_ok)

_generate_company_response(m, company_profile, gen_ok) ==
    IF Strip(company_profile) = ""
    THEN [outcome |-> "returned", text |-> NoProfileMsg(m), gen_calls |-> 0]
    ELSE Generate(RawProfileText, gen_ok)

\* The general path, from the context on
AnswerFromContext(m, context, gen_ok) ==
    IF Strip(context) = ""
    THEN [outcome |-> "returned", text |-> NoDataMsg(m), gen_calls |-> 0]
    ELSE Generate(RawKnowledgeText, gen_ok)

\* Variant: the context is tested without strip
query_knowledge_base_no_strip(m, self, query, found, gen_ok) ==
    IF AnyIn(ProfileKeywords(m), Lower(query))
    THEN [route |-> "profile", searched |-> FALSE, context |-> "",
          answer |-> _generate_company_response(m, self.company_profile, gen_ok)]
    ELSE [route |-> "general", searched |-> TRUE, context |-> JoinContext(found),
          answer |-> IF JoinContext(found) = ""
                     THEN [outcome |-> "returned", text |-> NoDataMsg(m), gen_calls |-> 0]
                     ELSE Generate(RawKnowledgeText, gen_ok)]

\* query_knowledge_base; found is what similarity_search returns if it is called
query_knowledge_base(m, self, query, found, gen_ok) ==
    IF AnyIn(ProfileKeywords(m), Lower(query))
    THEN [route |-> "profile", searched |-> FALSE, context |-> "",
          answer |-> _generate_company_response(m, self.company_profile, gen_ok)]
    ELSE [route |-> "general", searched |-> TRUE, context |-> JoinContext(found),
          answer |-> AnswerFromContext(m, JoinContext(found), gen_ok)]

RagOff == [pc |-> "off", vectorstore |-> <<>>, company_profile |-> "",
           found |-> AbsentIndex, trace |-> <<>>, error |-> "none",
           fail_at |-> 0, prev |-> "none"]

NoQuery == [op |-> "none", query |-> "", route |-> "none", searched |-> FALSE,
            nresults |-> 0, context |-> "", gen_ok |-> TRUE, gen_calls |-> 0,
            outcome |-> "none", text |-> ""]

NotLoaded == [done |-> FALSE, docs |-> <<>>, raised |-> FALSE]

\* The state of the RAG variables while another module runs
NoRag ==
    /\ disk = [files |-> <<>>, index |-> [d \in IndexDirs |-> AbsentIndex]]
    /\ rag = RagOff
    /\ rag_last = NoQuery
    /\ loaded = NotLoaded

RagQueries == {"Who is the CEO?", "Tell me about BAAZ", "What is RealEstateCo?",
               "ROI trend for villas?"}

\* RealEstateRAG(): __init__, lines 57-61.  What _initialize_vectorstore raises
\* leaves __init__ before company_profile is set.
rag_init(fail_at) ==
    /\ main \in RagMains
    /\ rag.pc = "off"
    /\ fail_at <= Len(BuildChunks(main, disk))
    /\ \E r \in {_initialize_vectorstore(main, disk, fail_at)} :
        /\ disk' = [disk EXCEPT !.index = r.index]
        /\ rag' = [pc |-> IF r.error = "none" THEN "ready" ELSE "crashed",
                   vectorstore |-> r.vectorstore,
                   company_profile |-> IF r.error = "none"
                                       THEN _load_company_profile(main, disk.files) ELSE "",
                   found |-> disk.index[INDEX_DIR(main)],
                   trace |-> r.trace, error |-> r.error,
                   fail_at |-> IF r.trace = LoadTrace THEN 0 ELSE fail_at,
                   prev |-> rag.prev]
    /\ UNCHANGED <<pvars, main, xvars, vavars, cvars, rag_last, loaded>>

\* The process ends and the module is started again
rag_restart ==
    /\ main \in RagMains
    /\ rag.pc \in {"ready", "crashed"}
    /\ rag' = [RagOff EXCEPT !.prev = IF rag.error = "load_local" THEN "load_failed"
                                      ELSE IF rag.error = "from_texts" THEN "build_failed"
                                      ELSE IF rag.trace = BuildTrace THEN "built"
                                      ELSE "loaded"]
    /\ rag_last' = NoQuery
    /\ UNCHANGED <<pvars, main, xvars, vavars, cvars, disk, loaded>>

\* rag.query_knowledge_base(query)
rag_query(query, gen_ok) ==
    /\ main \in RagMains
    /\ rag.pc = "ready"
    /\ \E found \in similarity_search(rag.vectorstore, DefaultK) :
       \E r \in {query_knowledge_base(main, rag, query, found, gen_ok)} :
          rag_last' = [op |-> "query", query |-> query, route |-> r.route,
                       searched |-> r.searched,
                       nresults |-> IF r.searched THEN Len(found) ELSE 0,
                       context |-> r.context,
                       gen_ok |-> gen_ok, gen_calls |-> r.answer.gen_calls,
                       outcome |-> r.answer.outcome, text |-> r.answer.text]
    /\ UNCHANGED <<pvars, main, xvars, vavars, cvars, disk, rag, loaded>>

\* rag._load_all_documents()
load_all_documents ==
    /\ main \in RagMains
    /\ ~loaded.done
    /\ \E r \in {_load_all_documents(main, disk.files)} :
          loaded' = [done |-> TRUE, docs |-> r.docs, raised |-> r.raised]
    /\ UNCHANGED <<pvars, main, xvars, vavars, cvars, disk, rag, rag_last>>

----------------------------------------------------------------------------
(* The state once the module that runs as __main__ has been loaded: no session,
   no CallAssistant constructed, a fresh VoiceAssistant.  twilio_webhookx.py is
   taken as loaded although its line 31 uses os without importing it. *)
Init ==
    /\ main \in {"twilio_webhookx", "voice2"}
    /\ sessions = <<>>
    /\ created = 0
    /\ ended = {}
    /\ resp = <<>>
    /\ last = [op |-> "init", call_sid |-> "", user_input |-> "",
               intent |-> "none", pre |-> <<>>, fan |-> NoFan]
    /\ va = [confirm_count |-> 0, reject_count |-> 0, finalized |-> FALSE]
    /\ va_pc = "start"
    /\ va_spoken = ""
    /\ va_last = [user_input |-> "", intent |-> "none", pre |-> VoiceAssistant]
    /\ NoThreads
    /\ NoPool
    /\ NoRag

Next ==
    \/ \E c \in CallIds : voice(c)
    \/ \E c \in CallIds, s \in SpeechResults : process(c, s, FastFans)
    \/ \E g \in BOOLEAN : va_start(g)
    \/ \E h \in BOOLEAN, s \in VaSpeech, g \in BOOLEAN : va_turn(h, s, g)

Spec == Init /\ [][Next]_vars

(* The fan-out of an unknown-intent turn, over every outcome and timing,
   for one call that /voice has set up and that has made at most one
   confirm and one reject turn *)
InitFan ==
    /\ main = "twilio_webhookx"
    /\ \E cc \in {0, 1}, rc \in {0, 1} :
          sessions = DictSet(<<>>, "CA1",
                        [bot |-> [CallAssistant("CA1") EXCEPT !.confirm_count = cc,
                                                              !.reject_count = rc],
                         start |-> 1])
    /\ created = 1
    /\ ended = {}
    /\ resp = <<>>
    /\ last = [op |-> "init", call_sid |-> "", user_input |-> "",
               intent |-> "none", pre |-> <<>>, fan |-> NoFan]
    /\ va = [confirm_count |-> 0, reject_count |-> 0, finalized |-> FALSE]
    /\ va_pc = "start"
    /\ va_spoken = ""
    /\ va_last = [user_input |-> "", intent |-> "none", pre |-> VoiceAssistant]
    /\ NoThreads
    /\ NoPool
    /\ NoRag

NextFan == \E s \in {"Tell me more"} : process("CA1", s, Fans)

SpecFan == InitFan /\ [][NextFan]_vars

(* Two request threads serving /process for one call that /voice has set up *)
InitConc ==
    /\ main = "twilio_webhookx"
    /\ sessions = DictSet(<<>>, "CA1", [bot |-> CallAssistant("CA1"), start |-> 1])
    /\ created = 1
    /\ ended = {}
    /\ resp = <<GatherSay(Greeting), Say(NoInputMsg), Hangup>>
    /\ last = [op |-> "voice", call_sid |-> "CA1", user_input |-> "",
               intent |-> "none", pre |-> <<>>, fan |-> NoFan]
    /\ va = [confirm_count |-> 0, reject_count |-> 0, finalized |-> FALSE]
    /\ va_pc = "start"
    /\ va_spoken = ""
    /\ va_last = [user_input |-> "", intent |-> "none", pre |-> VoiceAssistant]
    /\ NoThreads
    /\ NoPool
    /\ NoRag

NextConc ==
    \E t \in Threads :
        \/ \E s \in ConcSpeech : c_request(t, s)
        \/ c_check(t)
        \/ c_get(t)
        \/ c_load(t)
        \/ c_store(t)
        \/ c_test(t)
        \/ c_del(t)

SpecConc == InitConc /\ [][NextConc]_vars

(* The knowledge engine: a module with RealEstateRAG is started, restarted and
   queried; the data files and the index directory are as the disk has them *)
Chunk(text) == [source |-> "data/about_the_bot.txt", row |-> -1, page_content |-> text]

\* The index directory before the first start: not there, unreadable, or saved
\* by an earlier run; an index can be saved with no chunk or with blank text
PersistedIndexes ==
    {AbsentIndex, CorruptIndex, SavedIndex(<<>>), SavedIndex(<<Chunk(" \n")>>),
     SavedIndex(<<Chunk(" "), Chunk("\t"), Chunk("Villas yield 6 percent.")>>)}

FileConfigs(m) ==
    {[p \in Paths(m) |-> "ok"],
     [p \in Paths(m) |-> "missing"],
     [p \in Paths(m) |-> IF p = COMPANY_PROFILE_PATH(m) THEN "blank" ELSE "ok"],
     [p \in Paths(m) |-> IF p = COMPANY_PROFILE_PATH(m) THEN "bad" ELSE "ok"],
     [p \in Paths(m) |-> IF p = DATA_FILES(m).csv[1] THEN "bad"
                         ELSE IF p = DATA_FILES(m).csv[2] THEN "missing" ELSE "ok"]}

NoWebhook ==
    /\ sessions = <<>>
    /\ created = 0
    /\ ended = {}
    /\ resp = <<>>
    /\ last = [op |-> "init", call_sid |-> "", user_input |-> "",
               intent |-> "none", pre |-> <<>>, fan |-> NoFan]
    /\ va = [confirm_count |-> 0, reject_count |-> 0, finalized |-> FALSE]
    /\ va_pc = "start"
    /\ va_spoken = ""
    /\ va_last = [user_input |-> "", intent |-> "none", pre |-> VoiceAssistant]
    /\ NoThreads
    /\ NoPool

InitRag ==
    /\ main \in RagMains
    /\ NoWebhook
    /\ \E files \in FileConfigs(main), ix \in PersistedIndexes :
          disk = [files |-> files,
                  index |-> [d \in IndexDirs |-> IF d = INDEX_DIR(main) THEN ix
                                                 ELSE AbsentIndex]]
    /\ rag = RagOff
    /\ rag_last = NoQuery
    /\ loaded = NotLoaded

NextRag ==
    \/ \E fail_at \in FailAts : rag_init(fail_at)
    \/ rag_restart
    \/ \E q \in RagQueries, gen_ok \in BOOLEAN : rag_query(q, gen_ok)

SpecRag == InitRag /\ [][NextRag]_vars

(* _load_all_documents over every state of the ten data files *)
InitLoad ==
    /\ main = "properties_rag"
    /\ NoWebhook
    /\ \E files \in [Paths(main) -> {"missing", "bad", "ok"}] :
          disk = [files |-> files, index |-> [d \in IndexDirs |-> AbsentIndex]]
    /\ rag = RagOff
    /\ rag_last = NoQuery
    /\ loaded = NotLoaded

NextLoad == load_all_documents

SpecLoad == InitLoad /\ [][NextLoad]_vars

(* twilio_webhook.py once loaded: the global bot is a fresh VoiceAssistant *)
InitWebhook ==
    /\ main = "twilio_webhook"
    /\ NoWebhook
    /\ NoRag

NextWebhook ==
    \/ \E c \in CallIds : wh_voice(c)
    \/ \E c \in CallIds, s \in WhSpeech, rag_ok \in BOOLEAN, gen_ok \in BOOLEAN :
          wh_process(c, s, rag_ok, gen_ok)

SpecWebhook == InitWebhook /\ [][NextWebhook]_vars

(* Unknown-intent turns of tracked calls on two request threads and the pool *)
NextPool ==
    \/ \E h \in Handlers : p_submit(h)
    \/ p_start
    \/ \E t \in Tasks, ok \in BOOLEAN : p_finish(t, ok)
    \/ \E h \in Handlers, timed_out \in BOOLEAN : p_join_rag(h, timed_out)
    \/ \E h \in Handlers, timed_out \in BOOLEAN : p_join_ai(h, timed_out)
    \/ \E h \in Handlers : p_fallback(h)

SpecPool == InitConc /\ [][NextPool]_vars

(* Intent classification of utterances that hold a confirm phrase and a
   reject phrase, in both orders *)
Range(f) == {f[i] : i \in DOMAIN f}

Separators == {" ", ", but "}

Ties(confirms, rejects) ==
    {IF confirm_first THEN a \o sep \o b ELSE b \o sep \o a :
        a \in Range(confirms), b \in Range(rejects),
        sep \in Separators, confirm_first \in BOOLEAN}

TieSpeech == Ties(confirm_triggers, reject_triggers)
VaTieSpeech == Ties(va_confirm_triggers, va_reject_triggers)

NextIntents ==
    \/ voice("CA1")
    \/ \E s \in TieSpeech : process("CA1", s, FastFans)
    \/ \E g \in BOOLEAN : va_start(g)
    \/ \E s \in VaTieSpeech : va_turn(TRUE, s, TRUE)

SpecIntents == Init /\ [][NextIntents]_vars

(* Intent classification of utterances that are one phrase of a trigger list *)
PhraseSpeech == Range(confirm_triggers) \cup Range(reject_triggers)
VaPhraseSpeech == Range(va_confirm_triggers) \cup Range(va_reject_triggers)

NextPhrases ==
    \/ voice("CA1")
    \/ \E s \in PhraseSpeech : process("CA1", s, FastFans)
    \/ \E g \in BOOLEAN : va_start(g)
    \/ \E s \in VaPhraseSpeech : va_turn(TRUE, s, TRUE)

SpecPhrases == Init /\ [][NextPhrases]_vars

TypeOK ==
    /\ created \in 0..MaxVoice
    /\ \A c \in CallIds : Tracked(c) => sessions[c].bot.call_id = c

----------------------------------------------------------------------------
(* Properties *)

Bot(d, c) == d[c].bot
InterimDoc(text) == <<Say(text), GatherSay(GatherPrompt)>>
FinalDoc(text) == <<Say(text), Hangup>>
ExpiredDoc == <<Say(SessionExpiredMsg), Hangup>>

\* C1: /voice for a call_sid that is already tracked keeps the existing session:
\* the same object, with its confirm_count and reject_count as they were.
C1_VoiceKeepsTrackedSession ==
    (last.op = "voice" /\ last.call_sid \in DOMAIN last.pre)
        => sessions[last.call_sid] = last.pre[last.call_sid]

\* C2: a confirm turn adds exactly 1 to confirm_count; at 2 or more the session is
\* finalized on that turn (closing message, hangup, call_sid removed), below 2 it
\* stays tracked with the new count and the interim reply is returned.
C2_ConfirmTurn ==
    (last.op = "process" /\ last.intent = "confirm") =>
        LET c == last.call_sid
            n == Bot(last.pre, c).confirm_count + 1
        IN  IF n >= 2
            THEN c \notin DOMAIN sessions /\ resp = FinalDoc(ConfirmFinalMsg)
            ELSE /\ c \in DOMAIN sessions
                 /\ Bot(sessions, c).confirm_count = n
                 /\ resp = InterimDoc(ConfirmInterimMsg)

\* Two confirm turns from confirm_count = 0 have finalized the session.
C2_Witness ==
    /\ last.op = "process" /\ last.intent = "confirm"
    /\ Bot(last.pre, last.call_sid).confirm_count = 1
    /\ last.call_sid \notin DOMAIN sessions

\* C3: a reject turn adds exactly 1 to reject_count; at 2 or more the session is
\* finalized on that turn (polite closing message, hangup, call_sid removed), below
\* 2 it stays tracked with the new count and the persuasive reply is returned.
C3_RejectTurn ==
    (last.op = "process" /\ last.intent = "reject") =>
        LET c == last.call_sid
            n == Bot(last.pre, c).reject_count + 1
        IN  IF n >= 2
            THEN c \notin DOMAIN sessions /\ resp = FinalDoc(RejectFinalMsg)
            ELSE /\ c \in DOMAIN sessions
                 /\ Bot(sessions, c).reject_count = n
                 /\ resp = InterimDoc(RejectInterimMsg)

\* Two reject turns have finalized the session with the polite closing message.
C3_Witness ==
    /\ last.op = "process" /\ last.intent = "reject"
    /\ Bot(last.pre, last.call_sid).reject_count = 1
    /\ last.call_sid \notin DOMAIN sessions
    /\ resp = FinalDoc(RejectFinalMsg)

\* C4: the counters are independent, in twilio_webhookx.process and in
\* VoiceAssistant.run: a confirm turn leaves reject_count as it was and a reject turn
\* leaves confirm_count as it was, and a session is finalized only by a turn that
\* brings the counter of its own intent to 2 (so one confirm and one reject, in
\* either order, leave it active).
C4_CountersIndependent ==
    /\ (last.op = "process" /\ last.intent \in {"confirm", "reject"}) =>
          LET c == last.call_sid
              old == Bot(last.pre, c)
          IN  /\ c \in DOMAIN sessions =>
                    /\ last.intent = "confirm" =>
                          Bot(sessions, c).reject_count = old.reject_count
                    /\ last.intent = "reject" =>
                          Bot(sessions, c).confirm_count = old.confirm_count
              /\ c \notin DOMAIN sessions =>
                    \/ last.intent = "confirm" /\ old.confirm_count + 1 = 2
                    \/ last.intent = "reject" /\ old.reject_count + 1 = 2
    /\ (last.op = "process" /\ last.intent \notin {"confirm", "reject"}) =>
          DOMAIN last.pre \subseteq DOMAIN sessions
    /\ (va_last.intent = "confirm") => va.reject_count = va_last.pre.reject_count
    /\ (va_last.intent = "reject") => va.confirm_count = va_last.pre.confirm_count
    /\ (va.finalized /\ ~va_last.pre.finalized) =>
          \/ va_last.intent = "confirm" /\ va.confirm_count = 2
          \/ va_last.intent = "reject" /\ va.reject_count = 2
    /\ (va_pc = "done") => va.finalized

\* A session that has had one confirm and then one reject is still tracked.
C4_Witness ==
    /\ last.op = "process" /\ last.intent = "reject"
    /\ last.call_sid \in DOMAIN sessions
    /\ Bot(sessions, last.call_sid).confirm_count = 1
    /\ Bot(sessions, last.call_sid).reject_count = 1

\* C5: after /process has finalized a call_sid, and with no /voice for it since,
\* a /process request for it gets the session-expired document with hangup and
\* changes nothing: no session exists for it afterwards.
C5_FinalizedStaysExpired ==
    /\ \A c \in ended : c \notin DOMAIN sessions
    /\ (last.op = "process" /\ last.call_sid \in ended
            /\ last.call_sid \notin DOMAIN last.pre) =>
          /\ resp = ExpiredDoc
          /\ sessions = last.pre
          /\ last.intent = "none"

\* A confirm utterance arrives for a call_sid that was finalized before.
C5_Witness ==
    /\ last.op = "process" /\ last.call_sid \in ended
    /\ last.call_sid \notin DOMAIN last.pre
    /\ last.user_input = "yes"

\* C6: a /process request for a call_sid that is not tracked returns the
\* session-expired document with hangup (a response, not an exception) and leaves
\* the session map exactly as it was.
C6_UntrackedTurn ==
    (last.op = "process" /\ last.call_sid \notin DOMAIN last.pre) =>
        /\ resp = ExpiredDoc
        /\ sessions = last.pre

\* A turn for a call_sid that never had a session, while another call is tracked.
C6_Witness ==
    /\ last.op = "process" /\ last.call_sid \notin DOMAIN last.pre
    /\ last.call_sid \notin ended
    /\ DOMAIN sessions # {}

\* C7: an unknown-intent turn leaves the session tracked with confirm_count and
\* reject_count as they were, whether the retrieval and generation calls succeed,
\* raise or time out.
C7_UnknownTurnKeepsSession ==
    (last.op = "process" /\ last.intent = "unknown") =>
        /\ last.call_sid \in DOMAIN sessions
        /\ sessions = last.pre

\* An unknown turn whose retrieval timed out and whose fallback generation raised,
\* on a session with both counters at 1.
C7_Witness ==
    /\ last.op = "process" /\ last.intent = "unknown"
    /\ last.fan.rag.dur > RagTimeout /\ last.fan.fb = "error"
    /\ Bot(sessions, last.call_sid).confirm_count = 1
    /\ Bot(sessions, last.call_sid).reject_count = 1

\* C8: an utterance that contains a confirm phrase and a reject phrase is
\* classified confirm, by CallAssistant.handle_intents and by
\* VoiceAssistant.handle_intents.
C8_ConfirmWinsTie ==
    /\ (last.op = "process" /\ last.intent # "none"
            /\ AnyIn(confirm_triggers, last.user_input)
            /\ AnyIn(reject_triggers, last.user_input)) => last.intent = "confirm"
    /\ (va_last.intent # "none"
            /\ AnyIn(va_confirm_triggers, va_last.user_input)
            /\ AnyIn(va_reject_triggers, va_last.user_input)) => va_last.intent = "confirm"

\* An utterance that starts with a reject phrase and goes on with a confirm phrase.
C8_Witness ==
    /\ last.op = "process" /\ last.intent = "confirm"
    /\ last.user_input = "not now, but sure"

\* C9: an unknown turn whose retrieval call returned in time and whose generation
\* call timed out replies with the retrieval text alone.
C9_GenerationTimeoutGivesRetrievalText ==
    (last.op = "process" /\ last.intent = "unknown"
        /\ RagJoined(last.fan) /\ last.fan.ai.dur > last.fan.rag.dur + AiTimeout) =>
        resp = InterimDoc(RagText)

\* C10: an unknown turn whose retrieval call failed (raised or timed out) and whose
\* generation call failed (raised or timed out) replies with the fixed
\* advisor-escalation message.
C10_BothFailGivesEscalation ==
    (last.op = "process" /\ last.intent = "unknown"
        /\ (~last.fan.rag.ok \/ last.fan.rag.dur > RagTimeout)
        /\ (~last.fan.ai.ok \/ last.fan.ai.dur > AiTimeout)) =>
        resp = InterimDoc(EscalationMsg)

\* C11: an unknown turn issues the conversational generation call at most once
\* (no retry), and the text of a pooled call that missed its join is not spoken.
C11_OneGenerationCallPerTurn ==
    (last.op = "process" /\ last.intent = "unknown") =>
        /\ GenCalls(last.fan) <= 1
        /\ ~AiJoined(last.fan) => resp # InterimDoc("Generated reply 1")

\* C12: when the retrieval call and the generation call both succeed within their
\* timeouts, the reply is the generated text, one space, the knowledge text,
\* whichever of the two tasks completed first.
C12_ReplyOrder ==
    (last.op = "process" /\ last.intent = "unknown"
        /\ last.fan.rag.ok /\ last.fan.rag.dur <= RagTimeout
        /\ last.fan.ai.ok /\ last.fan.ai.dur <= AiTimeout) =>
        resp = InterimDoc("Generated reply 1 Knowledge answer. Shall I prepare a detailed report?")

\* Both calls succeeded and the retrieval call completed first.
C12_Witness ==
    /\ last.op = "process" /\ last.intent = "unknown"
    /\ last.fan.rag.ok /\ last.fan.ai.ok
    /\ last.fan.rag.dur = 1 /\ last.fan.ai.dur = 4
    /\ resp = InterimDoc("Generated reply 1 Knowledge answer. Shall I prepare a detailed report?")

\* C13: with /process turns for one call_sid running on concurrent threads, no
\* increment of confirm_count or reject_count is lost, the session is closed and
\* removed at most once, and no turn ends in an unhandled error.
C13_AtomicCounters ==
    (\A t \in Threads : threads[t].pc = "idle") =>
        /\ chist.errors = 0
        /\ chist.closings <= 1
        /\ ObjBot(1).confirm_count = chist.confirms
        /\ ObjBot(1).reject_count = chist.rejects

IsBlank(s) == \A i \in 1..Len(s) : SubSeq(s, i, i) \in Whitespace
ConfiguredOrder == DATA_FILES(main).csv \o DATA_FILES(main).txt
PosOf(p) == CHOOSE i \in DOMAIN ConfiguredOrder : ConfiguredOrder[i] = p
DocsFrom(docs, p) == {i \in DOMAIN docs : docs[i].source = p}

\* C14: query_knowledge_base never raises to its caller; when the generation call
\* fails, on the general path or on the profile path, it returns one of the fixed
\* fallback strings that offer an advisor.
C14_QueryFailsSoft ==
    rag_last.op = "query" =>
        /\ rag_last.outcome = "returned"
        /\ (rag_last.gen_calls = 1 /\ ~rag_last.gen_ok) =>
               rag_last.text \in {NoDataMsg(main), NoProfileMsg(main)}

\* C15: on the general path, when the search returns no chunk, or chunks whose
\* joined text is empty or whitespace, the no-relevant-data fallback is returned
\* and the generation call is not made.
C15_EmptyContextFallback ==
    (rag_last.op = "query" /\ rag_last.route = "general" /\ IsBlank(rag_last.context)) =>
        /\ rag_last.outcome = "returned"
        /\ rag_last.text = NoDataMsg(main)
        /\ rag_last.gen_calls = 0

\* Two chunks of whitespace were found, and the generation call would have failed.
C15_Witness ==
    /\ rag_last.op = "query" /\ rag_last.route = "general"
    /\ rag_last.nresults = 2 /\ rag_last.context # "" /\ IsBlank(rag_last.context)
    /\ ~rag_last.gen_ok
    /\ rag_last.text = NoDataMsg(main)

\* C16: a query whose lower-cased text holds a profile keyword never searches the
\* index; with an empty or whitespace profile it gets the profile-unavailable
\* fallback and the generation call is not made.
C16_ProfilePath ==
    (rag_last.op = "query" /\ AnyIn(ProfileKeywords(main), Lower(rag_last.query))) =>
        /\ rag_last.route = "profile"
        /\ ~rag_last.searched /\ rag_last.nresults = 0
        /\ IsBlank(rag.company_profile) =>
               /\ rag_last.outcome = "returned"
               /\ rag_last.text = NoProfileMsg(main)
               /\ rag_last.gen_calls = 0

\* An upper-case keyword, a profile file of whitespace, a store that has chunks.
C16_Witness ==
    /\ rag_last.op = "query" /\ rag_last.query = "Tell me about BAAZ"
    /\ main = "property_rag"
    /\ rag.company_profile # "" /\ IsBlank(rag.company_profile)
    /\ rag.vectorstore # <<>>
    /\ ~rag_last.searched /\ rag_last.gen_calls = 0
    /\ rag_last.text = NoProfileMsg(main)

\* C17: when the index directory found at startup cannot be loaded, the
\* construction rebuilds the index from the documents, saves it and completes.
C17_CorruptIndexRebuilt ==
    (rag.pc # "off" /\ rag.found.state = "corrupt") =>
        /\ rag.pc = "ready"
        /\ rag.trace = BuildTrace
        /\ disk.index[INDEX_DIR(main)].state = "valid"

\* C18: an index found at the configured directory is loaded, with no document
\* loading, splitting, embedding or saving; with none found the index is built
\* from the documents that load and saved to that directory; the start after a
\* build that succeeded takes the load path.
C18_InitPolicy ==
    /\ (rag.pc # "off" /\ rag.found.state = "valid") =>
           /\ rag.pc = "ready" /\ rag.trace = LoadTrace
           /\ rag.vectorstore = rag.found.chunks
           /\ disk.index[INDEX_DIR(main)] = rag.found
    /\ (rag.pc = "ready" /\ rag.found.state = "absent") =>
           /\ rag.trace = BuildTrace
           /\ \A p \in Paths(main) :
                  (disk.files[p] = "ok") <=> (DocsFrom(rag.vectorstore, p) # {})
           /\ disk.index[INDEX_DIR(main)] = SavedIndex(rag.vectorstore)
           /\ \A d \in IndexDirs \ {INDEX_DIR(main)} : disk.index[d] = AbsentIndex
    /\ (rag.pc # "off" /\ rag.prev = "built") =>
           rag.pc = "ready" /\ rag.trace = LoadTrace

\* The start after a run that built the index loaded what that run saved.
C18_Witness ==
    /\ rag.pc = "ready" /\ rag.prev = "built"
    /\ rag.trace = LoadTrace
    /\ Len(rag.vectorstore) >= 2
    /\ disk.index[INDEX_DIR(main)] = SavedIndex(rag.vectorstore)

\* C19: when the embedding call fails on any chunk of a build, the construction
\* fails, nothing is saved at the index directory, and the next start finds no
\* index to load.
C19_BuildAllOrNothing ==
    /\ (rag.pc # "off" /\ rag.fail_at > 0) => rag.error = "from_texts"
    /\ rag.error = "from_texts" =>
           /\ rag.pc = "crashed"
           /\ disk.index[INDEX_DIR(main)] = AbsentIndex
    /\ (rag.pc # "off" /\ rag.prev = "build_failed") => rag.trace # LoadTrace

\* The embedding failed on the third chunk, after a run whose build failed too.
C19_Witness ==
    /\ rag.pc = "crashed" /\ rag.error = "from_texts"
    /\ rag.fail_at = 3 /\ rag.prev = "build_failed"
    /\ disk.index[INDEX_DIR(main)] = AbsentIndex

\* C20: _load_all_documents does not raise whatever files are missing or fail to
\* load, and returns the documents of exactly the files that loaded, the CSV
\* files in list order and then the TXT files in list order.
C20_LoadIsolatesFailures ==
    loaded.done =>
        /\ ~loaded.raised
        /\ \A i \in DOMAIN DATA_FILES(main).csv :
               Cardinality(DocsFrom(loaded.docs, DATA_FILES(main).csv[i])) =
                   IF disk.files[DATA_FILES(main).csv[i]] = "ok" THEN MaxRows ELSE 0
        /\ \A i \in DOMAIN DATA_FILES(main).txt :
               Cardinality(DocsFrom(loaded.docs, DATA_FILES(main).txt[i])) =
                   IF disk.files[DATA_FILES(main).txt[i]] = "ok" THEN 1 ELSE 0
        /\ \A i, j \in DOMAIN loaded.docs :
               i < j => \/ PosOf(loaded.docs[i].source) < PosOf(loaded.docs[j].source)
                        \/ /\ loaded.docs[i].source = loaded.docs[j].source
                           /\ loaded.docs[i].row < loaded.docs[j].row

\* The first CSV file fails to load, a TXT file is missing, the others load.
C20_Witness ==
    /\ loaded.done /\ ~loaded.raised
    /\ disk.files[DATA_FILES(main).csv[1]] = "bad"
    /\ disk.files[DATA_FILES(main).csv[2]] = "ok"
    /\ disk.files[DATA_FILES(main).csv[3]] = "missing"
    /\ disk.files[DATA_FILES(main).txt[1]] = "missing"
    /\ disk.files[DATA_FILES(main).txt[2]] = "bad"
    /\ disk.files[DATA_FILES(main).txt[3]] = "ok"
    /\ loaded.docs[1].source = DATA_FILES(main).csv[2]
    /\ loaded.docs[Len(loaded.docs)].source = DATA_FILES(main).txt[3]

\* C25: the generation call has its own timeout of 4 seconds from its submission:
\* the text of the pooled generation call is in the reply only if that call
\* completed within 4 seconds, however long the retrieval call took.
C25_TimeoutFromSubmission ==
    (last.op = "process" /\ last.intent = "unknown"
        /\ resp = InterimDoc(generate_response(last.fan.ai.ok, 1) \o " " \o RagText)) =>
        last.fan.ai.dur <= AiTimeout

\* C26: an unknown-intent turn returns a response whether or not the retrieval
\* call and the generation calls return.
C26_UnknownTurnReturns ==
    (last.op = "process" /\ last.intent = "unknown") => resp # NoReturn

\* C27: with turns handled one at a time, every tracked session has confirm_count
\* and reject_count in {0, 1}; a session whose counter reached 2 is not in sessions.
C27_TrackedCountersBelowTwo ==
    \A c \in DOMAIN sessions :
        /\ sessions[c].bot.confirm_count \in {0, 1}
        /\ sessions[c].bot.reject_count \in {0, 1}

\* A confirm turn took one call to 2 and out of sessions while the other call
\* stays tracked at one confirm and one reject.
C27_Witness ==
    /\ last.op = "process" /\ last.intent = "confirm"
    /\ last.call_sid = "CA1" /\ Bot(last.pre, "CA1").confirm_count = 1
    /\ DOMAIN sessions = {"CA2"}
    /\ Bot(sessions, "CA2").confirm_count = 1
    /\ Bot(sessions, "CA2").reject_count = 1

\* C28: an utterance that is exactly one phrase of the reject list is classified
\* reject, by CallAssistant.handle_intents and by VoiceAssistant.handle_intents.
C28_RejectPhrasesRejected ==
    /\ (last.op = "process" /\ last.call_sid \in DOMAIN last.pre
            /\ last.user_input \in Range(reject_triggers)) => last.intent = "reject"
    /\ va_last.user_input \in Range(va_reject_triggers) => va_last.intent = "reject"

\* C29: an empty utterance for a tracked call_sid gets the repeat request; the
\* session map, with both counters, is as it was, and no call is submitted to the
\* pool or made to the generation client.
C29_EmptyTurnChangesNothing ==
    (last.op = "process" /\ last.call_sid \in DOMAIN last.pre /\ last.user_input = "") =>
        /\ resp = <<Say(RepeatMsg)>>
        /\ sessions = last.pre
        /\ last.intent = "none"
        /\ last.fan = NoFan

\* The empty utterance came after one confirm and one reject turn of the call.
C29_Witness ==
    /\ last.op = "process" /\ last.user_input = ""
    /\ last.call_sid \in DOMAIN sessions
    /\ Bot(last.pre, last.call_sid).confirm_count = 1
    /\ Bot(last.pre, last.call_sid).reject_count = 1
    /\ resp = <<Say(RepeatMsg)>>

WhDialogueDocs ==
    {<<Say(WhConfirmInterimMsg)>>, <<Say(WhRejectInterimMsg)>>,
     <<Say(WhConfirmFinalMsg), Hangup>>, <<Say(WhRejectFinalMsg), Hangup>>,
     <<Say(VaGenText \o " By the way, " \o RagText), GatherSay(WhGatherPrompt)>>}

\* C23: in twilio_webhook.py a call that enters /voice finds confirm_count = 0,
\* reject_count = 0 and no finalization, whatever /process turns other calls
\* have made.
C23_CallStartsAtZero ==
    (main = "twilio_webhook" /\ last.op = "voice") =>
        /\ va.confirm_count = 0
        /\ va.reject_count = 0
        /\ ~va.finalized

\* C24: in twilio_webhook.py, once a /process turn has set finalized, a later
\* /process request changes neither counter and is not answered as a dialogue turn.
C24_FinalizedIsTerminal ==
    (main = "twilio_webhook" /\ last.op = "process" /\ last.pre.finalized) =>
        /\ va = last.pre
        /\ resp \notin WhDialogueDocs

\* C21: at every moment the retrieval and generation calls being made, over all
\* the turns in progress, are at most the pool size of 4.
C21_PoolCapsCalls == InFlight <= max_workers

\* C22: when a request thread has returned the reply of its turn, neither of the
\* two calls the turn submitted is still queued or running.
C22_NoDanglingWork ==
    \A h \in Handlers :
        handlers[h].pc = "returned" =>
            \A k \in TaskKinds :
                pool.task[<<handlers[h].turn, k>>] \notin {"queued", "running"}

====
